---- MODULE Spec2Model ----
(***************************************************************************)
(* Glass Mechanical Watch (src/script.js): the gear generator, the gear    *)
(* train builder, the per-frame mesh animator with its Pause/Play toggle,  *)
(* and the pointer tilt handler, as one state machine.                     *)
(*                                                                         *)
(* Numbers.  JavaScript Numbers are IEEE doubles.  Angles are modelled in  *)
(* fixed point: an integer v stands for v / Scale degrees, and every       *)
(* product or quotient is rounded to the nearest unit where the double     *)
(* arithmetic of the source rounds to the nearest double.  Radii are in    *)
(* units of 1 / RadiusScale.  Attribute values that the program reads back *)
(* (data-rot) are strings: sequences of one-character strings, produced    *)
(* by NumberToString and parsed by ParseFloat.                             *)
(***************************************************************************)
EXTENDS Integers, Sequences, FiniteSets, TLC

VARIABLES
    dom,         \* ids of the elements the page holds
    threw,       \* where an uncaught exception arose: "none", "load", "frame", "event"
    listeners,   \* event listeners registered so far
    running,     \* let running (line 15)
    btnText,     \* toggleBtn.textContent
    container,   \* children of #gears: a sequence of <g> groups
    gearsObj,    \* state.gearsObj: <<>> (null) or <<train>>
    minuteT,     \* transform of #minute: <<>> or <<angle>>
    hourT,       \* transform of #hour:   <<>> or <<angle>>
    rafPending,  \* number of frame callbacks requested and not yet run
    dragging,    \* addDrag closure: dragging
    startY,      \* addDrag closure: startY
    rot,         \* addDrag closure: rot
    tilt,        \* #watch-svg style.transform: <<>> or <<rotateX, rotateY>>
    shape,       \* arguments and result of a makeGearPath call under test
    clock,       \* getClockAngles calls under test: <<>> or <<[date, angles, prev]>>
    last,        \* name of the handler that ran last
    now,         \* the Date read by the last frame: <<>> or <<date>>
    obs          \* observations about the run (history, read by no handler)

vars == <<dom, threw, listeners, running, btnText, container, gearsObj, minuteT,
          hourT, rafPending, dragging, startY, rot, tilt, shape, clock, last, now,
          obs>>

(***************************************************************************)
(* Bounds of the model                                                     *)
(***************************************************************************)
MaxRunFrames == 3      \* Spec: frames that update the gears
MaxToggles == 2        \* Spec: clicks on the toggle button
MaxRot == 120          \* Spec: |rot| (degrees) the drag may accumulate
MaxConvFrames == 72    \* SpecConverge: frames that update the gears
MaxWarmFrames == 3     \* SpecConverge: first frames, during which the time read may change
MaxBuilds == 2         \* SpecRebuild: further calls of buildGears
MaxTeeth == 6          \* SpecGear: tooth counts 0 .. MaxTeeth (and the train's own)
MaxMeshFrames == 3     \* SpecGear: frames that turn the gear under test

(***************************************************************************)
(* Numbers                                                                 *)
(***************************************************************************)
Scale == 10000
RadiusScale == 100

Abs(x) == IF x < 0 THEN -x ELSE x
Sign(x) == IF x > 0 THEN 1 ELSE IF x < 0 THEN -1 ELSE 0
Min(a, b) == IF a < b THEN a ELSE b
Max(a, b) == IF a > b THEN a ELSE b

\* a / b rounded to the nearest integer (b > 0), as a double operation rounds
RoundDiv[a \in Int, b \in Int] == Sign(a) * ((2 * Abs(a) + b) \div (2 * b))

\* Math.round(a / b): nearest integer, halves up
MathRound(a, b) == (2 * a + b) \div (2 * b)

(***************************************************************************)
(* Number -> String (setAttribute, line 177) and String -> Number          *)
(* (parseFloat, line 174)                                                  *)
(***************************************************************************)
DigitChars == <<"0", "1", "2", "3", "4", "5", "6", "7", "8", "9">>

DigitValues == [c \in {DigitChars[k] : k \in 1..10} |->
                  CHOOSE d \in 0..9 : DigitChars[d + 1] = c]

IsDigit(c) == c \in DOMAIN DigitValues
DigitVal(c) == DigitValues[c]

\* The helpers that use an argument many times are functions, so that the
\* argument is evaluated once.
Chars == Seq(STRING)

NatToStr[n \in Nat] ==
    IF n < 10 THEN <<DigitChars[n + 1]>>
    ELSE Append(NatToStr[n \div 10], DigitChars[(n % 10) + 1])

\* the digits of f below the place p (p a power of ten, f < p)
PadDigits[f \in Nat, p \in Nat] ==
    IF p = 1 THEN <<>>
    ELSE <<DigitChars[((f \div (p \div 10)) % 10) + 1]>> \o PadDigits[f, p \div 10]

StripZeros[s \in Chars] ==
    IF s # <<>> /\ s[Len(s)] = "0" THEN StripZeros[SubSeq(s, 1, Len(s) - 1)] ELSE s

\* String(v / Scale): shortest decimal, no trailing zeros, "-0" never printed
NumberToString[v \in Int] ==
    LET n == Abs(v)
        ip == NatToStr[n \div Scale]
        fp == StripZeros[PadDigits[n % Scale, Scale]]
        body == IF fp = <<>> THEN ip ELSE ip \o <<".">> \o fp
    IN  IF v < 0 THEN <<"-">> \o body ELSE body

\* (v / Scale).toFixed(2): two decimals, rounded
ToFixed2[v \in Int] ==
    LET c == RoundDiv[Abs(v) * 100, Scale]
        body == NatToStr[c \div 100] \o <<".">> \o PadDigits[c % 100, 100]
    IN  IF v < 0 /\ c # 0 THEN <<"-">> \o body ELSE body

\* number of leading decimal digits of s
LeadDigits[s \in Chars] ==
    IF s # <<>> /\ IsDigit(s[1]) THEN 1 + LeadDigits[Tail(s)] ELSE 0

\* value of a digit string
DigitsVal[s \in Chars] ==
    IF s = <<>> THEN 0 ELSE 10 * DigitsVal[SubSeq(s, 1, Len(s) - 1)] + DigitVal(s[Len(s)])

\* value of a fraction digit string in units of 1 / p (digits beyond p dropped)
FracVal[s \in Chars, p \in Nat] ==
    IF s = <<>> \/ p = 1 THEN 0
    ELSE DigitVal(s[1]) * (p \div 10) + FracVal[Tail(s), p \div 10]

\* parseFloat(s): <<>> for NaN, <<v>> for the number v / Scale.  It reads the
\* longest prefix  [+-] digits [. digits]  and ignores what follows.
ParseFloat[s \in Chars] ==
    LET neg == s # <<>> /\ s[1] = "-"
        u == IF s # <<>> /\ (s[1] = "-" \/ s[1] = "+") THEN Tail(s) ELSE s
        ni == LeadDigits[u]
        afterInt == SubSeq(u, ni + 1, Len(u))
        hasDot == afterInt # <<>> /\ afterInt[1] = "."
        fracAll == IF hasDot THEN Tail(afterInt) ELSE <<>>
        nf == LeadDigits[fracAll]
        mag == DigitsVal[SubSeq(u, 1, ni)] * Scale + FracVal[SubSeq(fracAll, 1, nf), Scale]
    IN  IF ni = 0 /\ nf = 0 THEN <<>>
        ELSE <<IF neg THEN -mag ELSE mag>>

\* x || 0 for a parsed number: NaN and 0 both give 0
OrZero(p) == IF p = <<>> THEN 0 ELSE p[1]

\* x || 0 for an attribute value, then converted to a string by parseFloat:
\* null (no attribute) and "" both give String(0)
AttrOrZero(s) == IF s = <<>> THEN <<"0">> ELSE s

(***************************************************************************)
(* getClockAngles (lines 112-121).  A date is [h, m, s, ms].               *)
(***************************************************************************)
getClockAnglesOfDay(date) ==
    LET s == date.s
        m == date.h * 60 + date.m
        h == date.h % 12
    IN  [ secondAngle |-> RoundDiv[(s * 1000 + date.ms) * (6 * (Scale \div 1000)), 1],
          minuteAngle |-> (m * 60000 + s * 1000 + date.ms) * ((6 * (Scale \div 1000)) \div 60),
          hourAngle   |-> RoundDiv[(h * 3600 + date.m * 60 + s) * (30 * (Scale \div 100)), 36] ]

getClockAngles24h(date) ==
    LET s == date.s
        m == date.m
        h == date.h
    IN  [ secondAngle |-> RoundDiv[(s * 1000 + date.ms) * (6 * (Scale \div 1000)), 1],
          minuteAngle |-> RoundDiv[(m * 60000 + s * 1000 + date.ms) * (6 * (Scale \div 1000)), 60],
          hourAngle   |-> RoundDiv[(h * 3600 + m * 60 + s) * (30 * (Scale \div 100)), 36] ]

getClockAngles(date) ==
    LET s == date.s
        m == date.m
        h == date.h % 12
    IN  [ secondAngle |-> RoundDiv[(s * 1000 + date.ms) * (6 * (Scale \div 1000)), 1],
          minuteAngle |-> RoundDiv[(m * 60000 + s * 1000 + date.ms) * (6 * (Scale \div 1000)), 60],
          hourAngle   |-> RoundDiv[(h * 3600 + m * 60 + s) * (30 * (Scale \div 100)), 36] ]

\* the times of day a frame may read
Times == { [h |-> 0,  m |-> 0,  s |-> 0,  ms |-> 0],
           [h |-> 10, m |-> 15, s |-> 30, ms |-> 0],
           [h |-> 23, m |-> 59, s |-> 59, ms |-> 999] }

(***************************************************************************)
(* makeGearPath (lines 38-67).  A vertex is kept in polar form, [i, radius]*)
(* (the point at angle i / steps of a turn); the source converts it to     *)
(* x,y text for the path, which nothing reads back.                        *)
(***************************************************************************)
StepsThreePerTooth(teeth) == teeth * 3

Steps(teeth) == teeth * 4

VertexRadiusTipAtRoot(i, inner, toothDepth, outer) ==
    LET mod == i % 4
    IN  IF mod = 0 THEN inner * RadiusScale + RoundDiv[toothDepth * 45 * RadiusScale, 100]
        ELSE IF mod = 1 THEN RoundDiv[inner * 68 * RadiusScale, 100]
        ELSE IF mod = 2 THEN inner * RadiusScale + RoundDiv[toothDepth * 45 * RadiusScale, 100]
        ELSE outer * RadiusScale

VertexRadius(i, inner, toothDepth, outer) ==
    LET mod == i % 4
    IN  IF mod = 0 THEN inner * RadiusScale + RoundDiv[toothDepth * 45 * RadiusScale, 100]
        ELSE IF mod = 1 THEN outer * RadiusScale
        ELSE IF mod = 2 THEN inner * RadiusScale + RoundDiv[toothDepth * 45 * RadiusScale, 100]
        ELSE RoundDiv[inner * 68 * RadiusScale, 100]

makeGearPath(teeth, r, toothDepth, centerRadius) ==
    LET outer == r + toothDepth
        inner == r
        steps == Steps(teeth)
        d == [k \in 1..steps |->
                [i |-> k - 1, radius |-> VertexRadius(k - 1, inner, toothDepth, outer)]]
    IN  [ d |-> d, teeth |-> teeth, r |-> r, outer |-> outer, center |-> centerRadius ]

(***************************************************************************)
(* buildGears (lines 74-107).  A <g> group is a record; a gear object      *)
(* refers to its group by the group's place among the children of #gears.  *)
(***************************************************************************)
config == << [id |-> "g1", teeth |-> 44, r |-> 64, toothDepth |-> 9, cx |-> -28, cy |-> 30],
             [id |-> "g2", teeth |-> 22, r |-> 34, toothDepth |-> 7, cx |-> 64,  cy |-> 20],
             [id |-> "g3", teeth |-> 14, r |-> 24, toothDepth |-> 6, cx |-> 38,  cy |-> -82] >>

\* the <g> that makeGearPath returns, once buildGears has set its attributes
Group(made, id, cx, cy) ==
    [ id |-> id, translate |-> <<cx, cy>>, rotate |-> <<>>, dataRot |-> <<>>,
      points |-> Len(made.d), hub |-> made.center ]

GearObj(made, at, cx, cy) ==
    [ group |-> at, teeth |-> made.teeth, r |-> made.r, outer |-> made.outer,
      cx |-> cx, cy |-> cy ]

KeepContainer(children) == children

\* gearContainer.innerHTML = ""
ClearContainer(children) == <<>>

buildGears(children) ==
    LET base == ClearContainer(children)
        made(k) == makeGearPath(config[k].teeth, config[k].r, config[k].toothDepth,
                                Max(8, MathRound(config[k].r * 28, 100)))
        groups == [k \in 1..Len(config) |->
                     Group(made(k), config[k].id, config[k].cx, config[k].cy)]
        gearObjs == [k \in 1..Len(config) |->
                     GearObj(made(k), Len(base) + k, config[k].cx, config[k].cy)]
        pin == makeGearPath(10, 8, 4, 5)
        withGears == base \o groups
    IN  [ children |-> Append(withGears, Group(pin, "pinion", 0, 0)),
          train |-> [ gears |-> gearObjs,
                      pinion |-> GearObj(pin, Len(withGears) + 1, 0, 0) ] ]

(***************************************************************************)
(* loop (lines 146-182): the parts of one frame                            *)
(***************************************************************************)
\* pinion.teeth || 10
PinionTeeth(pinion) == IF pinion.teeth # 0 THEN pinion.teeth ELSE 10

PinionTurnSmoothed(driverDeg) == RoundDiv[driverDeg * 14, 100]

\* const pinionTurn = driverDeg
PinionTurn(driverDeg) == driverDeg

TargetSameSense(pinionTurn, pinionTeeth, teeth) == RoundDiv[pinionTurn * pinionTeeth, teeth]

\* const target = -pinionTurn * (pinionTeeth / g.teeth)
Target(pinionTurn, pinionTeeth, teeth) == -RoundDiv[pinionTurn * pinionTeeth, teeth]

SmoothAtOnce(cur, target) == target

SmoothTenfold(cur, target) == cur + RoundDiv[(target - cur) * 140, 100]

SmoothWithEasing(cur, target) == cur + RoundDiv[(target - cur) * 8, 100]

\* const next = cur + (target - cur) * 0.14
Smooth(cur, target) == cur + RoundDiv[(target - cur) * 14, 100]

\* parseFloat(g.group.getAttribute("data-rot") || 0) || 0
CurrentRot(el) == OrZero(ParseFloat[AttrOrZero(el.dataRot)])

StoreRotFixed2(next) == ToFixed2[next]

\* the attribute value setAttribute("data-rot", next) stores
StoreRot(next) == NumberToString[next]

TranslateToOrigin(g) == <<0, 0>>

\* the translation in `translate(${g.cx}, ${g.cy}) rotate(...)`, lines 166 and 176
Translate(g) == <<g.cx, g.cy>>

\* the rotation one gear gets in a frame whose pinion turn is `turn`
NextRot(children, train, g, turn) ==
    Smooth(CurrentRot(children[g.group]), Target(turn, PinionTeeth(train.pinion), g.teeth))

LoopGearsPinionOnly(children, train, driverDeg) ==
    [children EXCEPT ![train.pinion.group].rotate = <<PinionTurn(driverDeg)>>]

\* lines 156-178: the pinion and every visible gear
LoopGears(children, train, driverDeg) ==
    LET pinion == train.pinion
        turn == PinionTurn(driverDeg)
        IsGear(k) == \E j \in 1..Len(train.gears) : train.gears[j].group = k
        GearAt(k) == train.gears[CHOOSE j \in 1..Len(train.gears) : train.gears[j].group = k]
    IN  [k \in 1..Len(children) |->
            IF k = pinion.group
            THEN [children[k] EXCEPT !.translate = Translate(pinion),
                                     !.rotate = <<turn>>]
            ELSE IF IsGear(k)
            THEN LET g == GearAt(k)
                     next == NextRot(children, train, g, turn)
                 IN  [children[k] EXCEPT !.translate = Translate(g),
                                         !.rotate = <<next>>,
                                         !.dataRot = StoreRot(next)]
            ELSE children[k]]

GearsAfterFrameUnguarded(children, train, run, driverDeg) ==
    LoopGears(children, train, driverDeg)

\* if (running) { ... }
GearsAfterFrame(children, train, run, driverDeg) ==
    IF run THEN LoopGears(children, train, driverDeg) ELSE children

HandAfterFrameOnlyRunning(old, run, angle) == IF run THEN <<angle>> ELSE old

\* lines 150-151: setAttribute("transform", `rotate(${angle})`), whatever `running` is
HandAfterFrame(old, run, angle) == <<angle>>

RearmOnlyRunning(pending, run) == IF run THEN pending + 1 ELSE pending

\* line 181: requestAnimationFrame(loop), whatever `running` is
Rearm(pending, run) == pending + 1

(***************************************************************************)
(* Lines 171-177 for any tooth count.  With g.teeth = 0 the quotient       *)
(* pinionTeeth / g.teeth is Infinity, and the Numbers that follow are not  *)
(* finite.  A Number that may be non-finite is a record: k is "fin" (v the *)
(* value), "inf" (v the sign) or "nan".                                    *)
(***************************************************************************)
Fin(v) == [k |-> "fin", v |-> v]
Inf(sgn) == [k |-> "inf", v |-> sgn]
NaN == [k |-> "nan", v |-> 0]

InfinityChars == <<"I", "n", "f", "i", "n", "i", "t", "y">>

StartsWith(s, pre) == Len(s) >= Len(pre) /\ SubSeq(s, 1, Len(pre)) = pre

\* parseFloat(s), "Infinity" with an optional sign included
ParseFloatNumber(s) ==
    LET neg == s # <<>> /\ s[1] = "-"
        u == IF s # <<>> /\ (s[1] = "-" \/ s[1] = "+") THEN Tail(s) ELSE s
    IN  IF StartsWith(u, InfinityChars) THEN Inf(IF neg THEN -1 ELSE 1)
        ELSE IF ParseFloat[s] = <<>> THEN NaN
        ELSE Fin(ParseFloat[s][1])

\* parseFloat(getAttribute("data-rot") || 0) || 0: NaN and 0 give 0, Infinity stays
CurrentRotNumber(dataRot) ==
    LET p == ParseFloatNumber(AttrOrZero(dataRot))
    IN  IF p.k = "nan" THEN Fin(0) ELSE p

\* -pinionTurn * (pinionTeeth / teeth), pinionTeeth > 0
TargetNumber(pinionTurn, pinionTeeth, teeth) ==
    IF teeth # 0 THEN Fin(Target(pinionTurn, pinionTeeth, teeth))
    ELSE IF pinionTurn = 0 THEN NaN        \* -0 * Infinity
    ELSE Inf(-Sign(pinionTurn))

\* cur + (target - cur) * 0.14
SmoothNumber(cur, target) ==
    IF cur.k = "fin" /\ target.k = "fin" THEN Fin(Smooth(cur.v, target.v))
    ELSE IF cur.k = "fin" /\ target.k = "inf" THEN target
    ELSE NaN                               \* NaN operand, or Infinity - Infinity

\* String(next)
StoreRotNumber(next) ==
    IF next.k = "fin" THEN StoreRot(next.v)
    ELSE IF next.k = "nan" THEN <<"N", "a", "N">>
    ELSE IF next.v < 0 THEN <<"-">> \o InfinityChars
    ELSE InfinityChars

(***************************************************************************)
(* Observations (history): what the claims are stated about.               *)
(*   shadow     the `next` each gear got in the last Running frame         *)
(*   shadowPrev shadow as it was before the last frame                     *)
(*   tgt        each gear's target in the last Running frame               *)
(*   streak     consecutive Running frames with that same target           *)
(*   err0       |cur - target| before the first frame of the streak        *)
(*   errPrev    |cur - target| before the last Running frame               *)
(*   atPause    the train's rotations when pause was last engaged          *)
(*   resumed    a toggle has resumed Running and no frame has run since    *)
(*   firstBuild what the first call of buildGears built                    *)
(*   nToggles, runFrames, builds: counters, saturating                     *)
(***************************************************************************)
NoGears == [k \in 1..Len(config) |-> 0]

InitObs ==
    [ shadow |-> NoGears, shadowPrev |-> NoGears, tgt |-> NoGears, streak |-> NoGears,
      err0 |-> NoGears, errPrev |-> NoGears, atPause |-> <<>>,
      resumed |-> FALSE,
      firstBuild |-> <<>>, nToggles |-> 0, runFrames |-> 0, builds |-> 0 ]

\* the stored rotation and transform of each visible gear, and the pinion's transform
View(children, trainOpt) ==
    IF trainOpt = <<>> THEN <<>>
    ELSE LET train == trainOpt[1]
         IN  << [ gears |-> [k \in 1..Len(train.gears) |->
                               [ dataRot |-> children[train.gears[k].group].dataRot,
                                 translate |-> children[train.gears[k].group].translate,
                                 rotate |-> children[train.gears[k].group].rotate ]],
                  pinion |-> [ translate |-> children[train.pinion.group].translate,
                               rotate |-> children[train.pinion.group].rotate ] ] >>

\* what a build fixes: each gear's group id, tooth count and placement
Built(children, train) ==
    [ gears |-> [k \in 1..Len(train.gears) |->
                   [ id |-> children[train.gears[k].group].id,
                     teeth |-> train.gears[k].teeth,
                     cx |-> train.gears[k].cx, cy |-> train.gears[k].cy ]],
      pinion |-> [ id |-> children[train.pinion.group].id,
                   teeth |-> train.pinion.teeth,
                   cx |-> train.pinion.cx, cy |-> train.pinion.cy ] ]

ObserveFrame(o, children, train, run, date) ==
    LET turn == PinionTurn(getClockAngles(date).minuteAngle)
        cur(k) == CurrentRot(children[train.gears[k].group])
        tg(k) == Target(turn, PinionTeeth(train.pinion), train.gears[k].teeth)
        same(k) == o.streak[k] > 0 /\ tg(k) = o.tgt[k]
    IN  IF ~run
        THEN [o EXCEPT !.shadowPrev = o.shadow, !.resumed = FALSE]
        ELSE [o EXCEPT
                !.shadowPrev = o.shadow,
                !.resumed = FALSE,
                !.shadow = [k \in 1..Len(train.gears) |-> NextRot(children, train, train.gears[k], turn)],
                !.tgt = [k \in 1..Len(train.gears) |-> tg(k)],
                !.streak = [k \in 1..Len(train.gears) |->
                              IF same(k) THEN Min(o.streak[k] + 1, MaxConvFrames + 1) ELSE 1],
                !.err0 = [k \in 1..Len(train.gears) |->
                              IF same(k) THEN o.err0[k] ELSE Abs(cur(k) - tg(k))],
                !.errPrev = [k \in 1..Len(train.gears) |-> Abs(cur(k) - tg(k))],
                !.runFrames = Min(o.runFrames + 1, MaxConvFrames + 1)]

(***************************************************************************)
(* The page before the script runs                                         *)
(***************************************************************************)
AllIds == {"gears", "minute", "hour", "toggle-spin", "case", "watch-svg"}

\* what the markup may hold in #gears and on the button before the script runs
StaleGroup ==
    [ id |-> "g1", translate |-> <<0, 0>>, rotate |-> <<>>, dataRot |-> <<"4", "2">>,
      points |-> 0, hub |-> 0 ]

InitialMarkup == { <<>>, <<StaleGroup>> }
InitialLabels == { "Pause", "Toggle" }

NoShape == [ args |-> <<>>, out |-> <<>>, rotate |-> <<>>, dataRot |-> <<>>, frames |-> 0 ]

InitPage(ids, children, label) ==
    /\ dom = ids
    /\ threw = "none"
    /\ listeners = {}
    /\ running = FALSE          \* not yet declared: line 15 has not run
    /\ btnText = label
    /\ container = children
    /\ gearsObj = <<>>
    /\ minuteT = <<>>
    /\ hourT = <<>>
    /\ rafPending = 0
    /\ dragging = FALSE
    /\ startY = 0
    /\ rot = 0
    /\ tilt = <<>>
    /\ clock = <<>>
    /\ last = "init"
    /\ now = <<>>
    /\ obs = InitObs

Init ==
    /\ \E children \in InitialMarkup, label \in InitialLabels :
          InitPage(AllIds, children, label)
    /\ shape = NoShape

(***************************************************************************)
(* The script's top level (lines 9-19, 126-136, 185, 189-204)              *)
(***************************************************************************)
Load ==
    /\ last = "init"
    /\ last' = "load"
    /\ running' = TRUE
    /\ IF "toggle-spin" \notin dom
       THEN \* line 16: toggleBtn is null
            /\ threw' = "load"
            /\ UNCHANGED <<listeners, container, gearsObj, rafPending, obs>>
       ELSE IF "gears" \notin dom
       THEN \* line 75, inside start(): gearContainer is null
            /\ threw' = "load"
            /\ listeners' = {"click"}
            /\ UNCHANGED <<container, gearsObj, rafPending, obs>>
       ELSE LET b == buildGears(container)
            IN  /\ container' = b.children
                /\ gearsObj' = <<b.train>>
                /\ rafPending' = rafPending + 1
                /\ listeners' = {"click"} \cup
                                (IF "case" \in dom
                                 THEN {"pointerdown", "pointerup", "pointermove"}
                                 ELSE {})
                /\ obs' = [obs EXCEPT !.firstBuild = <<Built(b.children, b.train)>>]
                /\ UNCHANGED threw
    /\ UNCHANGED <<dom, btnText, minuteT, hourT, dragging, startY, rot, tilt, shape, clock, now>>

(***************************************************************************)
(* loop (lines 146-182), run by the host when a requested frame is due     *)
(***************************************************************************)
Frame(date) ==
    /\ rafPending > 0
    /\ last' = "frame"
    /\ now' = <<date>>
    /\ LET angles == getClockAngles(date)
       IN  IF "minute" \notin dom
           THEN \* line 150 throws: the callback ends, nothing is requested
                /\ threw' = "frame"
                /\ rafPending' = rafPending - 1
                /\ UNCHANGED <<minuteT, hourT, container, obs>>
           ELSE IF "hour" \notin dom
           THEN \* line 151 throws
                /\ threw' = "frame"
                /\ rafPending' = rafPending - 1
                /\ minuteT' = HandAfterFrame(minuteT, running, angles.minuteAngle)
                /\ UNCHANGED <<hourT, container, obs>>
           ELSE /\ minuteT' = HandAfterFrame(minuteT, running, angles.minuteAngle)
                /\ hourT' = HandAfterFrame(hourT, running, angles.hourAngle)
                /\ container' = GearsAfterFrame(container, gearsObj[1], running,
                                                angles.minuteAngle)
                /\ rafPending' = Rearm(rafPending - 1, running)
                /\ obs' = ObserveFrame(obs, container, gearsObj[1], running, date)
                /\ UNCHANGED threw
    /\ UNCHANGED <<dom, listeners, running, btnText, gearsObj, dragging, startY, rot,
                   tilt, shape, clock>>

(***************************************************************************)
(* toggleBtn click handler (lines 16-19)                                   *)
(***************************************************************************)
ToggleRunningStuck(r) == FALSE

\* running = !running
ToggleRunning(r) == ~r

\* running ? "Pause" : "Play"
Label(r) == IF r THEN "Pause" ELSE "Play"

Toggle ==
    /\ "click" \in listeners
    /\ last' = "toggle"
    /\ running' = ToggleRunning(running)
    /\ btnText' = Label(running')
    /\ obs' = [obs EXCEPT !.nToggles = Min(obs.nToggles + 1, MaxToggles + 1),
                          !.resumed = running',
                          !.atPause = IF running' THEN obs.atPause
                                      ELSE View(container, gearsObj)]
    /\ UNCHANGED <<dom, threw, listeners, container, gearsObj, minuteT, hourT, rafPending,
                   dragging, startY, rot, tilt, shape, clock, now>>

(***************************************************************************)
(* addDrag (lines 189-204)                                                 *)
(***************************************************************************)
Ys == {0, 400}

\* dy * 0.15
DragDelta(dy) == RoundDiv[dy * 15 * Scale, 100]

ClampNothing(x) == x

\* Math.max(-12, Math.min(12, x))
Clamp(x) == Max(-12 * Scale, Min(12 * Scale, x))

\* el.setPointerCapture only routes later pointer events to el; the move and up
\* listeners are on window and receive them either way
PointerDown(y) ==
    /\ "pointerdown" \in listeners
    /\ last' = "pointerdown"
    /\ dragging' = TRUE
    /\ startY' = y
    /\ UNCHANGED <<dom, threw, listeners, running, btnText, container, gearsObj, minuteT,
                   hourT, rafPending, rot, tilt, shape, clock, now, obs>>

PointerUp ==
    /\ "pointerup" \in listeners
    /\ last' = "pointerup"
    /\ dragging' = FALSE
    /\ UNCHANGED <<dom, threw, listeners, running, btnText, container, gearsObj, minuteT,
                   hourT, rafPending, startY, rot, tilt, shape, clock, now, obs>>

MoveIgnoredNever(drag) == FALSE

\* if(!dragging) return;
MoveIgnored(drag) == ~drag

PointerMove(y) ==
    /\ "pointermove" \in listeners
    /\ last' = "pointermove"
    /\ IF MoveIgnored(dragging)
       THEN UNCHANGED <<startY, rot, tilt, threw>>
       ELSE /\ startY' = y
            /\ rot' = rot + DragDelta(y - startY)
            /\ IF "watch-svg" \notin dom
               THEN \* line 202: svg is null
                    /\ threw' = "event"
                    /\ UNCHANGED tilt
               ELSE /\ tilt' = <<Clamp(RoundDiv[rot', 6]), Clamp(RoundDiv[rot', 4])>>
                    /\ UNCHANGED threw
    /\ UNCHANGED <<dom, listeners, running, btnText, container, gearsObj, minuteT,
                   hourT, rafPending, dragging, shape, clock, now, obs>>

(***************************************************************************)
(* Spec: the page as shipped, every handler, short runs                    *)
(***************************************************************************)
FrameStep ==
    \E date \in Times :
        /\ running => obs.runFrames < MaxRunFrames
        /\ Frame(date)

ToggleStep == obs.nToggles < MaxToggles /\ Toggle

PointerDownStep == \E y \in Ys : PointerDown(y)

PointerMoveStep ==
    \E y \in Ys :
        /\ ~MoveIgnored(dragging) => Abs(rot + DragDelta(y - startY)) <= MaxRot * Scale
        /\ PointerMove(y)

Next ==
    \/ Load
    \/ FrameStep
    \/ ToggleStep
    \/ PointerDownStep
    \/ PointerMoveStep
    \/ PointerUp

Spec == Init /\ [][Next]_vars

(***************************************************************************)
(* SpecHandles: the script on a page that may lack any of the elements it  *)
(* looks up                                                                *)
(***************************************************************************)
InitHandles ==
    /\ \E ids \in SUBSET AllIds : InitPage(ids, <<>>, "Pause")
    /\ shape = NoShape

NextHandles == Load \/ FrameStep \/ ToggleStep

SpecHandles == InitHandles /\ [][NextHandles]_vars

(***************************************************************************)
(* SpecConverge: long runs of frames; the time read may change during the  *)
(* first MaxWarmFrames frames and is held from then on                     *)
(***************************************************************************)
ConvTimes == { [h |-> 0,  m |-> 0,  s |-> 0,  ms |-> 0],
               [h |-> 0,  m |-> 0,  s |-> 20, ms |-> 0],
               [h |-> 23, m |-> 59, s |-> 59, ms |-> 999] }

InitConverge == InitPage(AllIds, <<>>, "Pause") /\ shape = NoShape

ConvFrame ==
    \E date \in ConvTimes :
        /\ obs.runFrames < MaxConvFrames
        /\ IF now = <<>> THEN TRUE
           ELSE IF now[1] = date THEN TRUE ELSE obs.runFrames < MaxWarmFrames
        /\ Frame(date)

NextConverge == Load \/ ConvFrame

SpecConverge == InitConverge /\ [][NextConverge]_vars

(***************************************************************************)
(* LiveSpec: frames and toggles without end, the time held at the first    *)
(* one read.  The host runs the script once and runs every requested frame.*)
(***************************************************************************)
LiveTimes == { [h |-> 0, m |-> 0, s |-> 1, ms |-> 0] }

LiveFrame ==
    \E date \in LiveTimes :
        /\ IF now = <<>> THEN TRUE ELSE now[1] = date
        /\ Frame(date)

NextLive == Load \/ LiveFrame \/ Toggle

LiveSpec == InitConverge /\ [][NextLive]_vars /\ WF_vars(Load) /\ WF_vars(LiveFrame)

(***************************************************************************)
(* SpecRebuild: the train built again (state.gearsObj = buildGears(), as   *)
(* start does on line 133) between frames                                  *)
(***************************************************************************)
Rebuild ==
    /\ gearsObj # <<>>
    /\ obs.builds < MaxBuilds
    /\ last' = "rebuild"
    /\ LET b == buildGears(container)
       IN  /\ container' = b.children
           /\ gearsObj' = <<b.train>>
    /\ obs' = [obs EXCEPT !.builds = obs.builds + 1,
                          !.shadow = NoGears, !.shadowPrev = NoGears,
                          !.streak = NoGears]
    /\ UNCHANGED <<dom, threw, listeners, running, btnText, minuteT, hourT, rafPending,
                   dragging, startY, rot, tilt, shape, clock, now>>

NextRebuild == Load \/ FrameStep \/ Rebuild

SpecRebuild == Init /\ [][NextRebuild]_vars

(***************************************************************************)
(* SpecGear: makeGearPath applied to arguments drawn from bounded sets     *)
(***************************************************************************)
TeethSet == (0..MaxTeeth) \cup {10, 14, 22, 44}
RadiusSet == {8, 24, 34, 64}
DepthSet == {0, 4, 6, 7, 9}

InitGear ==
    /\ InitPage(AllIds, <<>>, "Pause")
    /\ \E t \in TeethSet, r \in RadiusSet, dp \in DepthSet :
          shape = [NoShape EXCEPT !.args = <<t, r, dp, Max(8, MathRound(r * 28, 100))>>]

Generate ==
    /\ shape.args # <<>>
    /\ shape.out = <<>>
    /\ shape' = [shape EXCEPT !.out =
                    <<makeGearPath(shape.args[1], shape.args[2], shape.args[3], shape.args[4])>>]
    /\ UNCHANGED <<dom, threw, listeners, running, btnText, container, gearsObj, minuteT,
                   hourT, rafPending, dragging, startY, rot, tilt, clock, last, now, obs>>

\* lines 171-177 for the gear under test, meshed with the 10-tooth pinion, in a
\* Running frame that read `date`
Mesh(date) ==
    /\ shape.out # <<>>
    /\ LET turn == PinionTurn(getClockAngles(date).minuteAngle)
           target == TargetNumber(turn, 10, shape.out[1].teeth)
           cur == CurrentRotNumber(shape.dataRot)
           next == SmoothNumber(cur, target)
       IN  shape' = [shape EXCEPT !.rotate = <<next>>,
                                  !.dataRot = StoreRotNumber(next),
                                  !.frames = shape.frames + 1]
    /\ UNCHANGED <<dom, threw, listeners, running, btnText, container, gearsObj, minuteT,
                   hourT, rafPending, dragging, startY, rot, tilt, clock, last, now, obs>>

MeshStep == \E date \in Times : shape.frames < MaxMeshFrames /\ Mesh(date)

NextGear == Generate \/ MeshStep

SpecGear == InitGear /\ [][NextGear]_vars

(***************************************************************************)
(* SpecClock: getClockAngles called again and again on times of day drawn  *)
(* from around the minute, hour and 12-hour boundaries                     *)
(***************************************************************************)
ClockHours == {0, 10, 11, 12, 23}
ClockMinutes == {0, 15, 59}
ClockSeconds == {0, 30, 59}
ClockMillis == {0, 500, 999}

ClockTimes ==
    { [h |-> h, m |-> m, s |-> s, ms |-> ms] :
        h \in ClockHours, m \in ClockMinutes, s \in ClockSeconds, ms \in ClockMillis }

InitClock == InitPage(AllIds, <<>>, "Pause") /\ shape = NoShape

\* one call getClockAngles(date); the call before it is kept beside the result
ReadClock(date) ==
    /\ clock' = << [ date |-> date,
                     angles |-> getClockAngles(date),
                     prev |-> IF clock = <<>> THEN <<>>
                              ELSE << [ date |-> clock[1].date,
                                        angles |-> clock[1].angles ] >> ] >>
    /\ UNCHANGED <<dom, threw, listeners, running, btnText, container, gearsObj, minuteT,
                   hourT, rafPending, dragging, startY, rot, tilt, shape, last, now, obs>>

NextClock == \E date \in ClockTimes : ReadClock(date)

SpecClock == InitClock /\ [][NextClock]_vars

(***************************************************************************)
(* Claims                                                                  *)
(***************************************************************************)
Pinion == container[gearsObj[1].pinion.group]
GearGroup(k) == container[gearsObj[1].gears[k].group]
GearIds == 1..Len(config)

\* |currentRotation - target| of gear k, against the last Running frame's target
Err(k) == Abs(CurrentRot(GearGroup(k)) - obs.tgt[k])

\* C1: while Paused, after any frames at any times read, the stored rotation and
\* transform of g1, g2, g3 and the pinion's transform are exactly what they were
\* when pause was engaged.
C1_PausedTrainFrozen ==
    (gearsObj # <<>> /\ ~running) => View(container, gearsObj) = obs.atPause

\* a frame ran while Paused, after the gears had turned, and read another time
\* than the one the pinion was left at
C1_Witness ==
    /\ gearsObj # <<>> /\ ~running /\ last = "frame"
    /\ obs.runFrames > 0
    /\ Pinion.rotate # <<>>
    /\ minuteT # Pinion.rotate

\* C2: in every state after a frame, Running or Paused, the minute and hour
\* hands show minuteAngle and hourAngle of the time that frame read.
C2_HandsShowFrameTime ==
    now # <<>> =>
        /\ minuteT = <<getClockAngles(now[1]).minuteAngle>>
        /\ hourT = <<getClockAngles(now[1]).hourAngle>>

\* Paused by the first toggle, a frame read 10:15:30.000 and set both hands
C2_Witness ==
    /\ last = "frame" /\ ~running /\ obs.nToggles = 1
    /\ now = <<[h |-> 10, m |-> 15, s |-> 30, ms |-> 0]>>
    /\ minuteT = <<93 * Scale>>
    /\ hourT = <<(30775 * Scale) \div 100>>

\* C3 as stated: with the target held over consecutive Running frames the distance
\* to it strictly decreases in each frame and is below 0.01 within 40 frames.
C3_Original ==
    \A k \in GearIds :
        /\ obs.streak[k] >= 2 => Err(k) < obs.errPrev[k]
        /\ obs.streak[k] >= 40 => Err(k) * 100 < Scale

\* the second half of C3 alone
C3_OriginalWithin40 ==
    \A k \in GearIds : obs.streak[k] >= 40 => Err(k) * 100 < Scale

\* C3 amended: with the target held over consecutive Running frames the distance
\* to it strictly decreases in each frame that starts at 0.01 or more, stays
\* below 0.01 once below it, is below 0.01 within 68 frames from every reachable
\* rotation, and within 40 frames when it started at 4 degrees or less.
C3_Converges ==
    \A k \in GearIds :
        obs.streak[k] >= 1 =>
            /\ obs.errPrev[k] * 100 >= Scale => Err(k) < obs.errPrev[k]
            /\ obs.errPrev[k] * 100 < Scale => Err(k) * 100 < Scale
            /\ obs.streak[k] >= 68 => Err(k) * 100 < Scale
            /\ (obs.streak[k] >= 40 /\ obs.err0[k] <= 4 * Scale) => Err(k) * 100 < Scale

\* g3 started more than 257 degrees from its target and is within 0.01 of it
\* after 68 frames
C3_Witness ==
    /\ gearsObj # <<>>
    /\ obs.streak[3] = 68 /\ obs.err0[3] > 257 * Scale
    /\ Err(3) * 100 < Scale /\ Err(3) > 0

\* g3 started 1.4 degrees from its target and is within 0.01 of it after 40 frames
C3_WitnessNear ==
    /\ gearsObj # <<>>
    /\ obs.streak[3] = 40 /\ obs.err0[3] > Scale /\ obs.err0[3] <= 4 * Scale
    /\ Err(3) * 100 < Scale /\ Err(3) > 0

\* C4: whenever the pinion's rotation is not zero, the rotation applied to each
\* visible gear has the opposite sign.
C4_GearsTurnAgainstPinion ==
    (gearsObj # <<>> /\ Pinion.rotate # <<>>) =>
        (Pinion.rotate[1] # 0 =>
            \A k \in GearIds :
                /\ GearGroup(k).rotate # <<>>
                /\ Sign(GearGroup(k).rotate[1]) # Sign(Pinion.rotate[1])
                /\ Sign(GearGroup(k).rotate[1]) = -Sign(Pinion.rotate[1]))

\* a Running frame turned the pinion to 93 degrees and every gear below zero
C4_Witness ==
    /\ gearsObj # <<>> /\ running /\ last = "frame"
    /\ Pinion.rotate = <<93 * Scale>>
    /\ \A k \in GearIds : GearGroup(k).rotate # <<>> /\ GearGroup(k).rotate[1] < 0

\* C5: after every frame executed while Running the pinion's rotation is that
\* frame's minuteAngle, and so equals the minute hand's rotation.
C5_PinionIsMinuteAngle ==
    (gearsObj # <<>> /\ running /\ last = "frame") =>
        /\ Pinion.rotate = <<getClockAngles(now[1]).minuteAngle>>
        /\ Pinion.rotate = minuteT

\* the second Running frame read 23:59:59.999 after another time: the pinion
\* went to 359.9999 degrees in that one frame, the gears did not reach their targets
C5_Witness ==
    /\ gearsObj # <<>> /\ running /\ last = "frame"
    /\ obs.runFrames = 2
    /\ Pinion.rotate = <<3599999>>
    /\ minuteT = <<3599999>>
    /\ obs.shadowPrev[1] # 0
    /\ Err(1) > Scale

\* C6: in every Running frame each gear with tooth count T gets
\* cur + (target - cur) * 0.14 with target = -pinionRotation * (10 / T), where cur
\* is the value the previous Running frame stored (0 before the first); that
\* value is stored, and is what the next frame reads back.
C6_SmoothedFromStored ==
    (gearsObj # <<>> /\ running /\ last = "frame") =>
        \A k \in GearIds :
            LET pinionRotation == getClockAngles(now[1]).minuteAngle
                target == -RoundDiv[pinionRotation * 10, config[k].teeth]
                cur == obs.shadowPrev[k]
                expected == cur + RoundDiv[(target - cur) * 14, 100]
            IN  /\ GearGroup(k).rotate = <<expected>>
                /\ obs.shadow[k] = expected
                /\ CurrentRot(GearGroup(k)) = expected

\* the third Running frame moved g1 from a stored rotation that has decimals
C6_Witness ==
    /\ gearsObj # <<>> /\ running /\ last = "frame"
    /\ obs.runFrames = 3
    /\ obs.shadowPrev[1] # 0
    /\ obs.shadowPrev[1] % Scale # 0
    /\ obs.shadow[1] # obs.shadowPrev[1]
    /\ Len(GearGroup(1).dataRot) > 4

\* C7: once the script has run, exactly one frame callback is pending in every
\* state, Running or Paused, and frames are executed again and again.
C7_FrameLoopPerpetual ==
    /\ [](last # "init" => rafPending = 1)
    /\ []<>(last = "frame")
    /\ [](last = "toggle" => <>(last = "frame"))

\* a frame ran while Paused and one callback is pending again
C7_Witness ==
    /\ last = "frame" /\ ~running /\ obs.nToggles >= 1
    /\ rafPending = 1

\* C8: the animator starts Running; after n toggles it is Running iff n is even,
\* whatever frames and pointer events came between; after a toggle the label is
\* "Pause" when Running and "Play" when Paused.
C8_ToggleParity ==
    last # "init" =>
        /\ running \in BOOLEAN
        /\ running <=> (obs.nToggles % 2 = 0)
        /\ obs.nToggles >= 1 => btnText = (IF running THEN "Pause" ELSE "Play")

\* two toggles, then a drag: Running again, labelled "Pause"
C8_Witness ==
    /\ obs.nToggles = 2 /\ running /\ btnText = "Pause"
    /\ last = "pointermove" /\ dragging
    /\ obs.runFrames >= 1

\* what the first build yields: ids, tooth counts and placements
ExpectedBuilt ==
    [ gears |-> << [id |-> "g1", teeth |-> 44, cx |-> -28, cy |-> 30],
                   [id |-> "g2", teeth |-> 22, cx |-> 64,  cy |-> 20],
                   [id |-> "g3", teeth |-> 14, cx |-> 38,  cy |-> -82] >>,
      pinion |-> [id |-> "pinion", teeth |-> 10, cx |-> 0, cy |-> 0] ]

\* C9: after every build, the first or a later one, the train has the ids, tooth
\* counts and placements of the first build, and #gears holds exactly one group
\* for each of g1, g2, g3 and pinion.
C9_BuildIdempotent ==
    gearsObj # <<>> =>
        /\ Built(container, gearsObj[1]) = ExpectedBuilt
        /\ obs.firstBuild = <<Built(container, gearsObj[1])>>
        /\ \A id \in {"g1", "g2", "g3", "pinion"} :
              Cardinality({k \in DOMAIN container : container[k].id = id}) = 1
        /\ Len(container) = 4

\* the train was built a third time, after frames had turned the second one
C9_Witness ==
    /\ last = "rebuild" /\ obs.builds = 2
    /\ obs.runFrames >= 1
    /\ \A k \in GearIds : GearGroup(k).rotate = <<>>

\* C10: for toothCount >= 3 makeGearPath yields 4 * toothCount vertices with the
\* radii inner + 0.45 depth, inner + depth, inner + 0.45 depth, 0.68 inner by
\* i mod 4, so the largest radius is inner + depth.
C10_GearOutline ==
    (shape.out # <<>> /\ shape.args[1] >= 3) =>
        LET g == shape.out[1]
            teeth == shape.args[1]
            inner == shape.args[2]
            depth == shape.args[3]
            expected(i) ==
                CASE i % 4 = 0 -> inner * RadiusScale + (45 * depth * RadiusScale) \div 100
                  [] i % 4 = 1 -> (inner + depth) * RadiusScale
                  [] i % 4 = 2 -> inner * RadiusScale + (45 * depth * RadiusScale) \div 100
                  [] i % 4 = 3 -> (68 * inner * RadiusScale) \div 100
        IN  /\ Len(g.d) = 4 * teeth
            /\ \A k \in 1..Len(g.d) : g.d[k].i = k - 1 /\ g.d[k].radius = expected(k - 1)
            /\ \A k \in 1..Len(g.d) : g.d[k].radius <= (inner + depth) * RadiusScale
            /\ \E k \in 1..Len(g.d) : g.d[k].radius = (inner + depth) * RadiusScale

\* the 44-tooth gear g1: 176 vertices
C10_Witness ==
    /\ shape.out # <<>>
    /\ shape.args = <<44, 64, 9, 18>>
    /\ Len(shape.out[1].d) = 176

\* C11: the angles a call returns are those of the time it read, whatever the
\* call before it read: minuteAngle = (m + s/60 + ms/60000) * 6 exactly, hourAngle
\* = (h mod 12 + m/60 + s/3600) * 30 to the nearest unit; 10:15:30.000 gives 93.0
\* and 307.75.
C11_AnglesFromTimeRead ==
    clock # <<>> =>
        LET d == clock[1].date
            a == clock[1].angles
            totalMs == d.m * 60000 + d.s * 1000 + d.ms
            totalS == (d.h % 12) * 3600 + d.m * 60 + d.s
        IN  /\ a.minuteAngle * 60 = totalMs * 6 * (Scale \div 1000)
            /\ 2 * Abs(a.hourAngle * 36 - totalS * 30 * (Scale \div 100)) <= 36
            /\ d = [h |-> 10, m |-> 15, s |-> 30, ms |-> 0] =>
                  (a.minuteAngle = 93 * Scale /\ a.hourAngle = 30775 * (Scale \div 100))
            /\ (clock[1].prev # <<>> /\ clock[1].prev[1].date = d) =>
                  clock[1].prev[1].angles = a

\* 10:15:30.000 read right after 23:59:59.999
C11_Witness ==
    /\ clock # <<>>
    /\ clock[1].date = [h |-> 10, m |-> 15, s |-> 30, ms |-> 0]
    /\ clock[1].prev # <<>>
    /\ clock[1].prev[1].date = [h |-> 23, m |-> 59, s |-> 59, ms |-> 999]
    /\ clock[1].prev[1].angles.minuteAngle = 3599999
    /\ clock[1].angles.minuteAngle = 93 * Scale
    /\ clock[1].angles.hourAngle = 3077500

\* C12 as stated: a gear made with zero teeth has been reported as an error by
\* the time it is built, and no frame gives a gear a rotation that is not finite.
C12_ZeroTeethReported ==
    /\ (shape.out # <<>> /\ shape.out[1].teeth = 0) => threw # "none"
    /\ shape.rotate # <<>> => shape.rotate[1].k = "fin"

\* the second half of C12 alone
C12_NoNonFiniteRotation ==
    shape.rotate # <<>> =>
        /\ shape.rotate[1].k = "fin"
        /\ ParseFloatNumber(shape.dataRot).k = "fin"

\* the handles the animator needs
NeededIds == {"gears", "minute", "hour", "toggle-spin"}

\* C13 as stated: once the script has run on a page that lacks a needed handle it
\* has failed at startup, and no failure ever arises inside a frame.
C13_FailsFastAtStartup ==
    /\ (last # "init" /\ NeededIds \ dom # {}) => threw = "load"
    /\ threw # "frame"

\* the second half of C13 alone
C13_NoFailureInFrame == threw # "frame"

\* C14: after any pointer events, each of the two tilt rotations applied to
\* #watch-svg is within [-12, 12] degrees, whatever rot has grown to.
C14_TiltClamped ==
    tilt # <<>> =>
        /\ -12 * Scale <= tilt[1] /\ tilt[1] <= 12 * Scale
        /\ -12 * Scale <= tilt[2] /\ tilt[2] <= 12 * Scale

\* two drags of 400 px took rot to 120 degrees: rot/6 = 20 and rot/4 = 30 are
\* both cut to 12
C14_Witness ==
    /\ last = "pointermove"
    /\ rot = 120 * Scale
    /\ tilt = <<12 * Scale, 12 * Scale>>

\* C15: a pointerdown, pointermove or pointerup leaves the Running flag, the
\* button, the children of #gears (stored rotations and transforms), the train,
\* the hands and the pending frame unchanged; a pointermove with no drag in
\* progress leaves rot, tilt, startY and dragging unchanged as well.
C15_PointerLeavesTrain ==
    [][ last' \in {"pointerdown", "pointermove", "pointerup"} =>
          /\ UNCHANGED <<running, btnText, container, gearsObj, minuteT, hourT,
                         rafPending>>
          /\ (last' = "pointermove" /\ ~dragging) => UNCHANGED <<rot, tilt, startY, dragging>>
      ]_vars

\* a pointermove at another height arrived after a drag had ended, the gears
\* turned and the pause engaged
C15_Witness ==
    /\ last = "pointermove" /\ ~dragging
    /\ startY = 400 /\ rot = 60 * Scale /\ tilt # <<>>
    /\ obs.runFrames >= 1 /\ ~running

\* C16: in every state after the build, each gear's transform and the pinion's
\* carry the translation (cx, cy) the build gave them, the gear objects hold that
\* placement, and ids and tooth counts are as built: frames change rotations only.
C16_PlacementFixed ==
    gearsObj # <<>> =>
        /\ \A k \in GearIds :
              /\ GearGroup(k).translate = <<config[k].cx, config[k].cy>>
              /\ gearsObj[1].gears[k].cx = config[k].cx
              /\ gearsObj[1].gears[k].cy = config[k].cy
        /\ Pinion.translate = <<0, 0>>
        /\ gearsObj[1].pinion.cx = 0 /\ gearsObj[1].pinion.cy = 0
        /\ obs.firstBuild = <<Built(container, gearsObj[1])>>

\* three Running frames turned g3, which still sits at (38, -82)
C16_Witness ==
    /\ gearsObj # <<>> /\ last = "frame" /\ running
    /\ obs.runFrames = 3
    /\ GearGroup(3).rotate # <<>>
    /\ GearGroup(3).rotate # <<0>>
    /\ obs.shadow[3] # obs.shadowPrev[3]
    /\ GearGroup(3).translate = <<38, -82>>

\* C17: a frame runs as one step between the events.  A frame that follows an
\* even number of toggles (Running) writes the pinion and all three gears with
\* that frame's values; a frame that follows an odd number (Paused) leaves all
\* of #gears as it was.  So the latest toggle decides the very next frame.
C17_FrameAllOrNothing ==
    [][ (last' = "frame" /\ gearsObj # <<>>) =>
          LET run == (obs.nToggles % 2 = 0)
              turn == getClockAngles(now'[1]).minuteAngle
              next(k) == Smooth(CurrentRot(GearGroup(k)),
                                -RoundDiv[turn * 10, config[k].teeth])
          IN  IF run
              THEN /\ Pinion'.rotate = <<turn>>
                   /\ \A k \in GearIds :
                         /\ GearGroup(k)'.rotate = <<next(k)>>
                         /\ GearGroup(k)'.dataRot = NumberToString[next(k)]
              ELSE container' = container
      ]_vars

\* toggled off and on again between the first frame and the second, which
\* moved all three gears
C17_Witness ==
    /\ gearsObj # <<>> /\ last = "frame" /\ running
    /\ obs.nToggles = 2 /\ obs.runFrames = 2
    /\ \A k \in GearIds : obs.shadow[k] # obs.shadowPrev[k]
    /\ Pinion.rotate = minuteT

\* C18: for every time read, secondAngle, minuteAngle and hourAngle are in
\* [0, 360); minuteAngle is 0 on the hour and hourAngle is 0 at 0:00 and 12:00,
\* so a read on the hour that follows a read within the hour returns a smaller
\* minuteAngle: the driver angle does not grow over the day.
C18_AnglesWrap ==
    clock # <<>> =>
        LET d == clock[1].date
            a == clock[1].angles
            onHour == d.m = 0 /\ d.s = 0 /\ d.ms = 0
        IN  /\ 0 <= a.secondAngle /\ a.secondAngle < 360 * Scale
            /\ 0 <= a.minuteAngle /\ a.minuteAngle < 360 * Scale
            /\ 0 <= a.hourAngle /\ a.hourAngle < 360 * Scale
            /\ onHour => a.minuteAngle = 0
            /\ (onHour /\ d.h % 12 = 0) => a.hourAngle = 0
            /\ (onHour /\ clock[1].prev # <<>>) =>
                  /\ a.minuteAngle <= clock[1].prev[1].angles.minuteAngle
                  /\ (d.h % 12 = 0) => a.hourAngle <= clock[1].prev[1].angles.hourAngle

\* 12:00:00.000 read after 11:59:59.999: both angles fell from just under 360 to 0
C18_Witness ==
    /\ clock # <<>>
    /\ clock[1].date = [h |-> 12, m |-> 0, s |-> 0, ms |-> 0]
    /\ clock[1].prev # <<>>
    /\ clock[1].prev[1].date = [h |-> 11, m |-> 59, s |-> 59, ms |-> 999]
    /\ clock[1].prev[1].angles.minuteAngle = 3599999
    /\ clock[1].prev[1].angles.hourAngle > 3599000
    /\ clock[1].angles.minuteAngle = 0
    /\ clock[1].angles.hourAngle = 0

\* the most negative rotation a gear with T teeth can be asked for: -360 * 10 / T
LowestTarget(k) == -RoundDiv[360 * Scale * 10, config[k].teeth]

\* C19: in every state after the build, whatever frames, toggles and pointer
\* events came before and whatever times the frames read, the stored rotation of
\* each visible gear with T teeth is within [-360 * 10 / T, 0].
C19_StoredRotationBounded ==
    gearsObj # <<>> =>
        \A k \in GearIds :
            /\ LowestTarget(k) <= CurrentRot(GearGroup(k))
            /\ CurrentRot(GearGroup(k)) <= 0
            /\ GearGroup(k).rotate # <<>> =>
                  (LowestTarget(k) <= GearGroup(k).rotate[1] /\ GearGroup(k).rotate[1] <= 0)

\* g3 turned toward -257.14 at 23:59:59.999, was paused and resumed, and the
\* next Running frame read 00:00:00.000: it is on its way back toward 0
C19_Witness ==
    /\ gearsObj # <<>> /\ last = "frame" /\ running
    /\ obs.nToggles = 2 /\ obs.runFrames = 2
    /\ now = <<[h |-> 0, m |-> 0, s |-> 0, ms |-> 0]>>
    /\ obs.shadowPrev[3] < -30 * Scale
    /\ CurrentRot(GearGroup(3)) > obs.shadowPrev[3]
    /\ CurrentRot(GearGroup(3)) < -20 * Scale

\* the rotation gear k was frozen at when pause was last engaged
Frozen(k) == OrZero(ParseFloat[AttrOrZero(obs.atPause[1].gears[k].dataRot)])

\* C20: the first frame after a resume sets the pinion to that frame's
\* minuteAngle at once and moves each gear from the rotation it was frozen at by
\* 14% of the distance to its new target, not onto the target unless it was
\* there already; every Running frame leaves each gear no farther from that
\* frame's target than it was, and closer by 14% of the distance.
C20_ResumeEases ==
    [][ (last' = "frame" /\ gearsObj # <<>> /\ running) =>
          LET turn == getClockAngles(now'[1]).minuteAngle
              target(k) == -RoundDiv[turn * 10, config[k].teeth]
              cur(k) == CurrentRot(GearGroup(k))
              next(k) == CurrentRot(GearGroup(k)')
          IN  /\ Pinion'.rotate = <<turn>>
              /\ \A k \in GearIds :
                    /\ next(k) - cur(k) = RoundDiv[(target(k) - cur(k)) * 14, 100]
                    /\ cur(k) # target(k) => next(k) # target(k)
                    /\ Abs(next(k) - target(k)) <= Abs(cur(k) - target(k))
                    /\ Abs(cur(k) - target(k)) >= 4 =>
                          Abs(next(k) - target(k)) < Abs(cur(k) - target(k))
                    /\ (obs.resumed /\ obs.atPause # <<>>) => cur(k) = Frozen(k)
      ]_vars

\* g3 was frozen at -36 on its way to -257.14; the pause ended and the next frame
\* read 10:15:30.000: the pinion is at 93 at once, g3 is between -36 and its new
\* target -66.43
C20_Witness ==
    /\ gearsObj # <<>> /\ last = "frame" /\ running
    /\ obs.nToggles = 2 /\ obs.runFrames = 2
    /\ obs.atPause # <<>>
    /\ obs.atPause[1].pinion.rotate = <<3599999>>
    /\ Pinion.rotate = <<93 * Scale>>
    /\ obs.shadowPrev[3] = Frozen(3)
    /\ Frozen(3) < -30 * Scale
    /\ obs.shadow[3] # obs.tgt[3]
    /\ obs.shadow[3] < Frozen(3)
    /\ obs.tgt[3] < obs.shadow[3]

====
